---- MODULE Spec2Model ----
(***************************************************************************)
(* Model of pkg/operations/crl.go: GetCRL, UpdateCRL and RotateCRL, run    *)
(* against a Vault PKI mount (certificates, revocations, CRL) and an AWS   *)
(* Client VPN endpoint (the installed revocation list).                    *)
(*                                                                         *)
(* One step of an invocation is one collaborator call (or the local        *)
(* decision between two calls); the PKI mount may be changed by other      *)
(* parties between any two steps.                                          *)
(***************************************************************************)
EXTENDS Integers, Sequences, FiniteSets, TLC

\* ------------------------------------------------------------------ bounds
MaxCerts == 3       \* certificates ever issued on the PKI mount
MaxSerial == 1      \* CRL rotations the PKI mount performs

Users == {"u1", "u2"}
Procs == {"a", "b"}     \* invocation slots
SeqProcs == {"a"}       \* the slot used by sequential callers

VARIABLES
    certs,      \* PKI: certs[i] is the user certificate i was issued to (issuance order)
    revoked,    \* PKI: set of revoked certificate ids
    serial,     \* PKI: number of CRL rotations performed
    deprovisioned,  \* users flagged as fully deprovisioned
    gateway,    \* endpoint: the CertificateRevocationList field (*string)
    pc,         \* per invocation: position in the code
    op,         \* per invocation: "UpdateCRL", "RotateCRL" or "GetCRL"
    users,      \* per invocation: result of ListUsers
    todo,       \* per invocation: revoke calls the range loop has still to make, in order
    crl,        \* per invocation: the []byte returned by GetCRL
    cvpnCRL,    \* per invocation: the export output's CertificateRevocationList
    ret,        \* per invocation: what UpdateCRL returned (in a RotateCRL whose rotate
                \* request failed: that error)
    log,        \* per invocation: lines written with log.Println
    trace,      \* per invocation: collaborator calls made, in order (history)
    served,     \* per invocation: the body the PKI served to GetCRL (history)
    mutated,    \* per invocation: another party changed the PKI mount meanwhile (history)
    prev,       \* per invocation: summary of the invocation completed before it (history)
    last        \* summary of the most recently completed invocation (history)

vars == <<certs, revoked, serial, deprovisioned, gateway, pc, op, users, todo, crl,
          cvpnCRL, ret, log, trace, served, mutated, prev, last>>

\* ------------------------------------------------------------ data values
\* A Go []byte: nil, or a (possibly empty) sequence of bytes.
NilBytes == [isNil |-> TRUE, data |-> <<>>]
Bytes(s) == [isNil |-> FALSE, data |-> s]

\* string(crl): a nil slice and an empty slice both convert to "".
String(b) == b.data

\* A Go *string: nil pointer, or a pointer to a string.
NilString == [valid |-> FALSE, val |-> <<>>]
AwsString(s) == [valid |-> TRUE, val |-> s]

\* The revocation entries of a CRL, as one field: bit i-1 is set when
\* certificate i is revoked.
RECURSIVE Entries(_)
Entries(S) ==
    IF S = {} THEN 0
    ELSE LET m == CHOOSE x \in S : TRUE
         IN 2 ^ (m - 1) + Entries(S \ {m})

\* The PEM the PKI mount serves at /v1/<path>/crl/pem, as its sequence of
\* fields: the CRL number (one more per rotation) and the revocation entries.
\* A response body cut short is a proper prefix of it, never itself a CRL.
PkiCRL == <<serial, Entries(revoked)>>

\* Certificates of user u, oldest first.
UserCerts(u) == SelectSeq([i \in 1..Len(certs) |-> i], LAMBDA i : certs[i] = u)

\* ListUsers: every user with the ordered list of certificate identifiers.
ListUsersResult == [u \in Users |-> UserCerts(u)]
NoUsers == [u \in Users |-> <<>>]

\* "for _, crts := range users": the orders in which the loop may visit the
\* users in S (a Go map is ranged over in no particular order).
RangeOrders(S) ==
    {o \in [1..Cardinality(S) -> S] : \A i, j \in 1..Cardinality(S) : o[i] = o[j] => i = j}

\* The certificate judged latest: the last entry of the enumerated list.
Latest(crts) == crts[Len(crts)]

\* revokeUserCertificates: the certificates it issues revoke calls for.
ToRevokeKeepingLatest(crts, revokeAll) ==
    IF crts = <<>> THEN crts ELSE SubSeq(crts, 1, Len(crts) - 1)
ToRevoke(crts, revokeAll) ==
    IF revokeAll \/ crts = <<>> THEN crts
    ELSE SubSeq(crts, 1, Len(crts) - 1)

\* UpdateCRL calls revokeUserCertificates(..., crts, false)
UserRevocationsAll(crts) == ToRevoke(crts, TRUE)
UserRevocations(crts) == ToRevoke(crts, FALSE)

\* The revoke calls of the whole range loop over the enumerated users us,
\* visited in the given order.
RECURSIVE Revocations(_, _)
Revocations(us, order) ==
    IF order = <<>> THEN <<>>
    ELSE UserRevocations(us[Head(order)]) \o Revocations(us, Tail(order))

\* Summary of a completed invocation: valid when it was an UpdateCRL that
\* returned success while no other party changed the PKI mount; pushes is then
\* the number of import calls it made.  ahead: a RotateCRL has rotated the
\* PKI's CRL and then failed, no invocation has returned success since, and
\* no other party has changed the PKI mount since that RotateCRL started.
NoSummary == [valid |-> FALSE, pushes |-> 0, ahead |-> FALSE]

Call(c, a, ok) == [call |-> c, arg |-> a, ok |-> ok]
Pushes(t) == Len(SelectSeq(t, LAMBDA e : e.call = "import"))
Summary(p, t, err) ==
    IF op[p] = "UpdateCRL" /\ err = "nil" /\ ~mutated[p]
    THEN [valid |-> TRUE, pushes |-> Pushes(t), ahead |-> FALSE]
    ELSE [NoSummary EXCEPT !.ahead =
             /\ ~mutated[p]
             /\ err # "nil" \/ op[p] = "GetCRL"
             /\ \/ prev[p].ahead
                \/ op[p] = "RotateCRL" /\ t # <<>> /\ t[1].ok]

\* ------------------------------------------------------------------- Init
Init ==
    /\ certs = <<>>
    /\ revoked = {}
    /\ serial = 0
    /\ deprovisioned = {}
    /\ gateway = NilString
    /\ pc = [p \in Procs |-> "idle"]
    /\ op = [p \in Procs |-> "none"]
    /\ users = [p \in Procs |-> NoUsers]
    /\ todo = [p \in Procs |-> <<>>]
    /\ crl = [p \in Procs |-> NilBytes]
    /\ cvpnCRL = [p \in Procs |-> NilString]
    /\ ret = [p \in Procs |-> [data |-> NilBytes, err |-> "nil"]]
    /\ log = [p \in Procs |-> <<>>]
    /\ trace = [p \in Procs |-> <<>>]
    /\ served = [p \in Procs |-> NilString]
    /\ mutated = [p \in Procs |-> FALSE]
    /\ prev = [p \in Procs |-> NoSummary]
    /\ last = NoSummary

\* ------------------------------------------------- error checks of the code
\* RotateCRL: "if err != nil { return err }" after the rotate request.
RotateErrorIgnored(ok) == FALSE
RotateAborts(ok) == ~ok
\* RotateCRL: "_, err = UpdateCRL(...); if err != nil { return err }; return nil":
\* what RotateCRL returns, given the error UpdateCRL returned to it.
RotateCRLReturn(updateErr) == updateErr
\* UpdateCRL: "if err != nil { return nil, err }" after ListUsers.
ListUsersErrorIgnored(ok) == FALSE
ListUsersAborts(ok) == ~ok
\* UpdateCRL: "if err != nil { return nil, err }" after revokeUserCertificates.
RevokeErrorIgnored(ok) == FALSE
RevokeAborts(ok) == ~ok
\* UpdateCRL: the err of GetCRL is assigned and then overwritten by the export
\* call's err; nothing tests it.
GetCRLAborts(err) == FALSE
\* UpdateCRL: "if err != nil { return nil, err }" after the export call.
ExportAborts(ok) == ~ok
\* UpdateCRL: "if err != nil { return nil, err }" after either import call.
ImportAborts(ok) == ~ok

\* GetCRL: the request fails -> (nil, err); otherwise whatever ReadAll has
\* read (k bytes of the body) is returned with a nil error.
GetCRL(reqOk, k) ==
    IF ~reqOk THEN [data |-> NilBytes, err |-> TRUE]
    ELSE [data |-> Bytes(SubSeq(PkiCRL, 1, k)), err |-> FALSE]

\* reflect.ValueOf(*cvpnCRL).FieldByName("CertificateRevocationList").Elem().IsValid()
IsValid(field) == field.valid

\* The branch UpdateCRL takes after the export call.
DecideAbsentAsEmpty(field, fetched) ==
    IF field.val # String(fetched) THEN "import_update" ELSE "noop"
DecideAlwaysImport(field, fetched) ==
    IF IsValid(field) THEN "import_update" ELSE "import_first"
Decide(field, fetched) ==
    IF IsValid(field)
    THEN IF field.val # String(fetched) THEN "import_update" ELSE "noop"
    ELSE "import_first"

\* CertificateRevocationList: aws.String(string(crl))
ImportInput(fetched) == AwsString(String(fetched))

\* ---------------------------------------------------------------- actions
Running(p) == pc[p] \notin {"idle", "done"}

\* A caller invokes UpdateCRL, RotateCRL or GetCRL.
Invoke(p, o) ==
    /\ pc[p] = "idle"
    /\ o = "RotateCRL" =>
           serial + Cardinality({q \in Procs : pc[q] = "rotate"}) < MaxSerial
    /\ pc' = [pc EXCEPT ![p] = CASE o = "RotateCRL" -> "rotate"
                                 [] o = "GetCRL" -> "getcrl"
                                 [] OTHER -> "list"]
    /\ op' = [op EXCEPT ![p] = o]
    /\ prev' = [prev EXCEPT ![p] = last]
    /\ UNCHANGED <<deprovisioned, certs, revoked, serial, gateway, users, todo, crl,
                   cvpnCRL, ret, log, trace, served, mutated, last>>

\* The caller has the result; the invocation's frame is gone.
Return(p) ==
    /\ pc[p] = "done"
    /\ pc' = [pc EXCEPT ![p] = "idle"]
    /\ op' = [op EXCEPT ![p] = "none"]
    /\ users' = [users EXCEPT ![p] = NoUsers]
    /\ todo' = [todo EXCEPT ![p] = <<>>]
    /\ crl' = [crl EXCEPT ![p] = NilBytes]
    /\ cvpnCRL' = [cvpnCRL EXCEPT ![p] = NilString]
    /\ ret' = [ret EXCEPT ![p] = [data |-> NilBytes, err |-> "nil"]]
    /\ log' = [log EXCEPT ![p] = <<>>]
    /\ trace' = [trace EXCEPT ![p] = <<>>]
    /\ served' = [served EXCEPT ![p] = NilString]
    /\ mutated' = [mutated EXCEPT ![p] = FALSE]
    /\ prev' = [prev EXCEPT ![p] = NoSummary]
    /\ UNCHANGED <<deprovisioned, certs, revoked, serial, gateway, last>>

\* RotateCRL: GET /v1/<path>/crl/rotate
RotateRequest(p) ==
    /\ pc[p] = "rotate"
    /\ \E ok \in BOOLEAN :
        LET t == Append(trace[p], Call("rotate", <<>>, ok)) IN
        /\ trace' = [trace EXCEPT ![p] = t]
        /\ serial' = IF ok THEN serial + 1 ELSE serial
        /\ IF RotateAborts(ok)
           THEN /\ pc' = [pc EXCEPT ![p] = "done"]
                /\ ret' = [ret EXCEPT ![p] = [data |-> NilBytes, err |-> "rotate"]]
                /\ last' = Summary(p, t, "rotate")
           ELSE /\ pc' = [pc EXCEPT ![p] = "list"]
                /\ UNCHANGED <<ret, last>>
    /\ UNCHANGED <<deprovisioned, certs, revoked, gateway, op, users, todo, crl,
                   cvpnCRL, log, served, mutated, prev>>

\* UpdateCRL: users, err := ListUsers(...)
ListUsersCall(p) ==
    /\ pc[p] = "list"
    /\ \E ok \in BOOLEAN :
        LET t == Append(trace[p], Call("ListUsers", <<>>, ok)) IN
        /\ trace' = [trace EXCEPT ![p] = t]
        /\ IF ListUsersAborts(ok)
           THEN /\ pc' = [pc EXCEPT ![p] = "done"]
                /\ ret' = [ret EXCEPT ![p] = [data |-> NilBytes, err |-> "ListUsers"]]
                /\ last' = Summary(p, t, "ListUsers")
                /\ UNCHANGED <<users, todo>>
           ELSE /\ pc' = [pc EXCEPT ![p] = "revoke"]
                /\ LET us == IF ok THEN ListUsersResult ELSE NoUsers IN
                    /\ users' = [users EXCEPT ![p] = us]
                    /\ \E order \in RangeOrders(IF ok THEN Users ELSE {}) :
                         todo' = [todo EXCEPT ![p] = Revocations(us, order)]
                /\ UNCHANGED <<ret, last>>
    /\ UNCHANGED <<deprovisioned, certs, revoked, serial, gateway, op, crl, cvpnCRL,
                   log, served, mutated, prev>>

\* revokeUserCertificates: one revoke call to the PKI mount.
RevokeCall(p) ==
    /\ pc[p] = "revoke"
    /\ todo[p] # <<>>
    /\ \E ok \in BOOLEAN :
        LET c == Head(todo[p])
            t == Append(trace[p], Call("revoke", <<c>>, ok)) IN
        /\ trace' = [trace EXCEPT ![p] = t]
        /\ revoked' = IF ok THEN revoked \cup {c} ELSE revoked
        /\ todo' = [todo EXCEPT ![p] = Tail(@)]
        /\ IF RevokeAborts(ok)
           THEN /\ pc' = [pc EXCEPT ![p] = "done"]
                /\ ret' = [ret EXCEPT ![p] = [data |-> NilBytes, err |-> "revoke"]]
                /\ last' = Summary(p, t, "revoke")
           ELSE UNCHANGED <<pc, ret, last>>
    /\ UNCHANGED <<deprovisioned, certs, serial, gateway, op, users, crl, cvpnCRL,
                   log, served, mutated, prev>>

\* UpdateCRL: the range loop is over.
ConvergeDone(p) ==
    /\ pc[p] = "revoke"
    /\ todo[p] = <<>>
    /\ pc' = [pc EXCEPT ![p] = "getcrl"]
    /\ UNCHANGED <<deprovisioned, certs, revoked, serial, gateway, op, users, todo,
                   crl, cvpnCRL, ret, log, trace, served, mutated, prev, last>>

\* GetCRL, called by UpdateCRL (crl, err := GetCRL(...)) or by a caller of its
\* own, to whom its result is returned as it is.
GetCRLCall(p) ==
    /\ pc[p] = "getcrl"
    /\ \E reqOk \in BOOLEAN, k \in 0..Len(PkiCRL) :
        LET r == GetCRL(reqOk, k)
            whole == reqOk /\ k = Len(PkiCRL)
            t == Append(trace[p], Call("GetCRL", <<>>, whole)) IN
        /\ (~reqOk) => k = 0
        /\ trace' = [trace EXCEPT ![p] = t]
        /\ crl' = [crl EXCEPT ![p] = r.data]
        /\ served' = [served EXCEPT ![p] = IF reqOk THEN AwsString(PkiCRL) ELSE NilString]
        /\ IF op[p] = "GetCRL"
           THEN LET e == IF r.err THEN "GetCRL" ELSE "nil" IN
                /\ pc' = [pc EXCEPT ![p] = "done"]
                /\ ret' = [ret EXCEPT ![p] = [data |-> r.data, err |-> e]]
                /\ last' = Summary(p, t, e)
           ELSE IF GetCRLAborts(r.err)
           THEN /\ pc' = [pc EXCEPT ![p] = "done"]
                /\ ret' = [ret EXCEPT ![p] = [data |-> NilBytes, err |-> "GetCRL"]]
                /\ last' = Summary(p, t, "GetCRL")
           ELSE /\ pc' = [pc EXCEPT ![p] = "export"]
                /\ UNCHANGED <<ret, last>>
    /\ UNCHANGED <<deprovisioned, certs, revoked, serial, gateway, op, users, todo,
                   cvpnCRL, log, mutated, prev>>

\* UpdateCRL: svc.ExportClientVpnClientCertificateRevocationList(...) and the
\* comparison of the installed CRL with the fetched one.
ExportCall(p) ==
    /\ pc[p] = "export"
    /\ \E ok \in BOOLEAN :
        LET t == Append(trace[p], Call("export", <<>>, ok))
            out == IF ok THEN gateway ELSE NilString
            d == Decide(out, crl[p]) IN
        /\ trace' = [trace EXCEPT ![p] = t]
        /\ IF ExportAborts(ok)
           THEN /\ pc' = [pc EXCEPT ![p] = "done"]
                /\ ret' = [ret EXCEPT ![p] = [data |-> NilBytes, err |-> "export"]]
                /\ last' = Summary(p, t, "export")
                /\ UNCHANGED <<cvpnCRL, log>>
           ELSE /\ cvpnCRL' = [cvpnCRL EXCEPT ![p] = out]
                /\ IF d = "noop"
                   THEN /\ pc' = [pc EXCEPT ![p] = "done"]
                        /\ log' = [log EXCEPT ![p] = Append(@, "no update needed")]
                        /\ ret' = [ret EXCEPT ![p] = [data |-> crl[p], err |-> "nil"]]
                        /\ last' = Summary(p, t, "nil")
                   ELSE /\ pc' = [pc EXCEPT ![p] = d]
                        /\ UNCHANGED <<log, ret, last>>
    /\ UNCHANGED <<deprovisioned, certs, revoked, serial, gateway, op, users, todo,
                   crl, served, mutated, prev>>

\* UpdateCRL: svc.ImportClientVpnClientCertificateRevocationList(...)
ImportCall(p) ==
    /\ pc[p] \in {"import_update", "import_first"}
    /\ \E ok \in BOOLEAN :
        LET in == ImportInput(crl[p])
            t == Append(trace[p], Call("import", in.val, ok))
            lines == IF pc[p] = "import_first" THEN <<"first upload">>
                     ELSE IF ImportAborts(ok) THEN <<>> ELSE <<"updated">> IN
        /\ trace' = [trace EXCEPT ![p] = t]
        /\ gateway' = IF ok THEN in ELSE gateway
        /\ log' = [log EXCEPT ![p] = @ \o lines]
        /\ pc' = [pc EXCEPT ![p] = "done"]
        /\ IF ImportAborts(ok)
           THEN /\ ret' = [ret EXCEPT ![p] = [data |-> NilBytes, err |-> "import"]]
                /\ last' = Summary(p, t, "import")
           ELSE /\ ret' = [ret EXCEPT ![p] = [data |-> crl[p], err |-> "nil"]]
                /\ last' = Summary(p, t, "nil")
    /\ UNCHANGED <<deprovisioned, certs, revoked, serial, op, users, todo, crl,
                   cvpnCRL, served, mutated, prev>>

\* ------------------------------------------------- the PKI's other clients
\* A change by another party takes effect between two steps of the running
\* invocations.  After its CRL fetch an invocation reads nothing from the PKI
\* mount any more, so a change made then is the same change made right after
\* the invocation has returned: it is taken at that point.
Disturb ==
    /\ \A p \in Procs : pc[p] \in {"idle", "rotate", "list", "revoke", "getcrl"}
    /\ mutated' = [p \in Procs |-> Running(p)]
    /\ last' = NoSummary

\* A certificate is issued to user u (who is provisioned from then on).  The
\* users being interchangeable, the oldest certificate is taken to be u1's.
IssueCertificate(u) ==
    /\ Len(certs) < MaxCerts
    /\ certs = <<>> => u = "u1"
    /\ certs' = Append(certs, u)
    /\ deprovisioned' = deprovisioned \ {u}
    /\ Disturb
    /\ UNCHANGED <<revoked, serial, gateway, pc, op, users, todo, crl,
                   cvpnCRL, ret, log, trace, served, prev>>

\* User u is deprovisioned: the revocation is run for u with revokeAll, which
\* revokes all the certificates of u, the latest included.
RevokeUser(u) ==
    /\ \E i \in 1..Len(certs) : certs[i] = u /\ i \notin revoked
    /\ revoked' = revoked \cup {c \in 1..Len(certs) :
                                  \E i \in 1..Len(ToRevoke(UserCerts(u), TRUE)) :
                                      ToRevoke(UserCerts(u), TRUE)[i] = c}
    /\ deprovisioned' = deprovisioned \cup {u}
    /\ Disturb
    /\ UNCHANGED <<certs, serial, gateway, pc, op, users, todo, crl,
                   cvpnCRL, ret, log, trace, served, prev>>

Step(p) ==
    \/ \E o \in {"UpdateCRL", "RotateCRL", "GetCRL"} : Invoke(p, o)
    \/ Return(p)
    \/ RotateRequest(p)
    \/ ListUsersCall(p)
    \/ RevokeCall(p)
    \/ ConvergeDone(p)
    \/ GetCRLCall(p)
    \/ ExportCall(p)
    \/ ImportCall(p)

Environment ==
    \/ \E u \in Users : IssueCertificate(u)
    \/ \E u \in Users : RevokeUser(u)

Next ==
    \/ \E p \in SeqProcs : Step(p)
    \/ Environment

Spec == Init /\ [][Next]_vars

\* ------------------------------------------------- concurrent invocations
\* Two callers, one invocation of UpdateCRL or RotateCRL each, on the same PKI
\* mount and the same endpoint; nobody else changes the mount meanwhile.  The
\* mount starts with any certificates and revocations, and the endpoint with
\* no CRL or with the mount's CRL.  The users being interchangeable, the
\* oldest certificate is taken to be u1's.
SeqsUpTo(S, n) == UNION {[1..k -> S] : k \in 0..n}

InitConc ==
    /\ certs \in SeqsUpTo(Users, MaxCerts)
    /\ certs # <<>> => certs[1] = "u1"
    /\ revoked \in SUBSET (1..Len(certs))
    /\ serial = 0
    /\ deprovisioned = {}
    /\ gateway \in {NilString, AwsString(PkiCRL)}
    /\ pc = [p \in Procs |-> "idle"]
    /\ op = [p \in Procs |-> "none"]
    /\ users = [p \in Procs |-> NoUsers]
    /\ todo = [p \in Procs |-> <<>>]
    /\ crl = [p \in Procs |-> NilBytes]
    /\ cvpnCRL = [p \in Procs |-> NilString]
    /\ ret = [p \in Procs |-> [data |-> NilBytes, err |-> "nil"]]
    /\ log = [p \in Procs |-> <<>>]
    /\ trace = [p \in Procs |-> <<>>]
    /\ served = [p \in Procs |-> NilString]
    /\ mutated = [p \in Procs |-> FALSE]
    /\ prev = [p \in Procs |-> NoSummary]
    /\ last = NoSummary

ConcStep(p) ==
    \/ \E o \in {"UpdateCRL", "RotateCRL"} : Invoke(p, o)
    \/ RotateRequest(p)
    \/ ListUsersCall(p)
    \/ RevokeCall(p)
    \/ ConvergeDone(p)
    \/ GetCRLCall(p)
    \/ ExportCall(p)
    \/ ImportCall(p)

NextConc == \E p \in Procs : ConcStep(p)

SpecConc == InitConc /\ [][NextConc]_vars

\* ------------------------------------------------------ reading the history
Done(p) == pc[p] = "done"
\* The invocation is an UpdateCRL, or a RotateCRL (which calls UpdateCRL).
Propagates(p) == op[p] \in {"UpdateCRL", "RotateCRL"}
Made(t, c) == \E i \in 1..Len(t) : t[i].call = c
Failed(t, c) == \E i \in 1..Len(t) : t[i].call = c /\ ~t[i].ok
Succeeded(t, c) == \E i \in 1..Len(t) : t[i].call = c /\ t[i].ok
Elems(q) == {q[i] : i \in 1..Len(q)}
\* The import call is made or about to be made.
Pushing(p) == pc[p] \in {"import_update", "import_first"} \/ Made(trace[p], "import")
\* The convergence step of the invocation has succeeded.
Converged(p) ==
    \/ pc[p] \in {"getcrl", "export", "import_update", "import_first"}
    \/ Done(p) /\ Made(trace[p], "GetCRL")

\* ----------------------------------------------------------------- claims

\* C1: whenever an invocation has returned success and no other party changed
\* the PKI mount during it, the CRL installed on the endpoint is the PKI's
\* current CRL.  (The code does not satisfy this: see C3, C4.)
C1_InstalledEqualsPki ==
    \A p \in Procs :
        (Done(p) /\ Propagates(p) /\ ret[p].err = "nil" /\ ~mutated[p])
            => gateway = AwsString(PkiCRL)

\* C2 as stated: right after a successful convergence step (no other party
\* acting during the run) every enumerated user with a certificate has exactly
\* one unrevoked certificate, the latest of the enumerated list, and no revoke
\* call of the run names the latest certificate of an enumerated list.
C2_ExactlyOneUnrevoked ==
    \A p \in Procs :
        (pc[p] = "getcrl" /\ ~mutated[p]) =>
            \A u \in Users :
                users[p][u] # <<>> =>
                    /\ Elems(users[p][u]) \ revoked = {Latest(users[p][u])}
                    /\ ~Made(trace[p], "revoke") \/
                       \A i \in 1..Len(trace[p]) :
                           trace[p][i].call = "revoke" =>
                               trace[p][i].arg # <<Latest(users[p][u])>>

\* C2 as amended: after a successful convergence step every enumerated
\* certificate other than the latest of its user's list is revoked (so at most
\* one enumerated certificate per user is unrevoked, and only the latest can
\* be); and no revoke call of any run names the latest certificate of a list
\* enumerated in that run.
C2_AtMostLatestUnrevoked ==
    \A p \in Procs : \A u \in Users :
        users[p][u] # <<>> =>
            /\ Converged(p) => Elems(users[p][u]) \ revoked \subseteq {Latest(users[p][u])}
            /\ \A i \in 1..Len(trace[p]) :
                   trace[p][i].call = "revoke" =>
                       trace[p][i].arg # <<Latest(users[p][u])>>

\* C2 witness: convergence has just succeeded after revoking a superseded
\* certificate, and that user's latest certificate is the one left unrevoked.
C2_Witness ==
    \E p \in Procs : \E u \in Users :
        /\ pc[p] = "getcrl"
        /\ Len(users[p][u]) >= 2
        /\ Succeeded(trace[p], "revoke")
        /\ Elems(users[p][u]) \ revoked = {Latest(users[p][u])}

\* C3: if the enumeration, a revocation, the CRL fetch or the read of the
\* installed CRL failed, the invocation makes no import call (the installed
\* CRL is only ever written by an import call).
C3_NoInstallAfterFailure ==
    \A p \in Procs :
        (\E c \in {"ListUsers", "revoke", "GetCRL", "export"} : Failed(trace[p], c))
            => ~Pushing(p)

\* C4: an invocation returns success only if every collaborator call it made
\* succeeded, and when one failed it returns the error of that call.
C4_NoErrorSwallowed ==
    \A p \in Procs :
        (Done(p) /\ Propagates(p)) =>
            /\ ret[p].err = "nil" => \A i \in 1..Len(trace[p]) : trace[p][i].ok
            /\ \A i \in 1..Len(trace[p]) :
                   ~trace[p][i].ok => ret[p].err = trace[p][i].call

\* C5: a successful UpdateCRL that directly follows a successful UpdateCRL,
\* with no change by any other party since the first one started, makes no
\* import call, and the two together make at most one.
C5_SecondRunNoPush ==
    \A p \in Procs :
        (Done(p) /\ op[p] = "UpdateCRL" /\ ret[p].err = "nil" /\ ~mutated[p]
                 /\ prev[p].valid)
            => /\ Pushes(trace[p]) = 0
               /\ prev[p].pushes + Pushes(trace[p]) <= 1

\* C6: once the export call has succeeded: if the endpoint has no CRL the
\* invocation goes on to the import call, whose input is the fetched CRL as a
\* string, whatever the fetched bytes are; if the installed CRL is the empty
\* string it goes on to an import call exactly when the fetched CRL is not
\* empty.
C6_AbsentVersusEmpty ==
    \A p \in Procs :
        Succeeded(trace[p], "export") =>
            /\ ~cvpnCRL[p].valid =>
                   /\ Pushing(p)
                   /\ \A i \in 1..Len(trace[p]) :
                          trace[p][i].call = "import" => trace[p][i].arg = String(crl[p])
            /\ cvpnCRL[p] = AwsString(<<>>) => (Pushing(p) <=> String(crl[p]) # <<>>)

\* C6 witness: the installed CRL was the empty string, the fetched CRL is a
\* whole CRL, and the import call has been made.
C6_Witness ==
    \E p \in Procs :
        /\ Done(p)
        /\ Succeeded(trace[p], "export")
        /\ cvpnCRL[p] = AwsString(<<>>)
        /\ Succeeded(trace[p], "GetCRL")
        /\ Succeeded(trace[p], "import")

\* C7: when the fetched CRL equals, as a string, the installed CRL read from
\* the endpoint, the invocation makes no import call, the installed CRL stays
\* what it was, and the fetched CRL is returned with no error.
C7_EqualMeansNoPush ==
    \A p \in Procs :
        (Succeeded(trace[p], "export") /\ cvpnCRL[p].valid
                                       /\ cvpnCRL[p].val = String(crl[p]))
            => /\ Done(p)
               /\ ~Made(trace[p], "import")
               /\ gateway = cvpnCRL[p]
               /\ ret[p] = [data |-> crl[p], err |-> "nil"]

\* C7 witness: a whole CRL was fetched, it equals the installed one, and the
\* invocation has returned.
C7_Witness ==
    \E p \in Procs :
        /\ Done(p)
        /\ Succeeded(trace[p], "GetCRL")
        /\ Succeeded(trace[p], "export")
        /\ cvpnCRL[p] = AwsString(String(crl[p]))
        /\ revoked # {}

\* C8: when the installed CRL is absent or differs from the fetched CRL the
\* invocation goes on to the import call, and the input of every import call
\* is exactly the CRL the PKI served to this invocation.
C8_PushCarriesFetched ==
    \A p \in Procs :
        /\ (Succeeded(trace[p], "export")
                /\ (~cvpnCRL[p].valid \/ cvpnCRL[p].val # String(crl[p])))
            => Pushing(p)
        /\ \A i \in 1..Len(trace[p]) :
               trace[p][i].call = "import" =>
                   served[p].valid /\ trace[p][i].arg = served[p].val

\* C9: if ListUsers fails, that call is the last collaborator call of the
\* invocation (no revoke, no CRL fetch, no endpoint call) and the invocation
\* has returned the enumeration error with no data.
C9_EnumerationFailureAborts ==
    \A p \in Procs :
        Failed(trace[p], "ListUsers") =>
            /\ Done(p)
            /\ ret[p] = [data |-> NilBytes, err |-> "ListUsers"]
            /\ trace[p][Len(trace[p])].call = "ListUsers"
            /\ \A c \in {"revoke", "GetCRL", "export", "import"} : ~Made(trace[p], c)

\* C9 witness: the enumeration failed while a user had a superseded,
\* unrevoked certificate.
C9_Witness ==
    \E p \in Procs : \E u \in Users :
        /\ Done(p)
        /\ ret[p].err = "ListUsers"
        /\ Len(UserCerts(u)) >= 2
        /\ UserCerts(u)[1] \notin revoked

\* C10: if a revoke call fails, it is the last collaborator call of the
\* invocation (no further revoke, no CRL fetch, no endpoint call), it is the
\* only failed call (no retry), the invocation has returned the revocation
\* error, and every certificate revoked before it is still revoked.
C10_RevokeFailureAborts ==
    \A p \in Procs :
        Failed(trace[p], "revoke") =>
            /\ Done(p)
            /\ ret[p] = [data |-> NilBytes, err |-> "revoke"]
            /\ LET n == Len(trace[p]) IN
                /\ trace[p][n].call = "revoke" /\ ~trace[p][n].ok
                /\ \A i \in 1..(n - 1) : trace[p][i].ok
                /\ \A i, j \in 1..n :
                       (trace[p][i].call = "revoke" /\ trace[p][j].call = "revoke"
                            /\ trace[p][i].arg = trace[p][j].arg) => i = j
                /\ \A i \in 1..(n - 1) :
                       trace[p][i].call = "revoke" => trace[p][i].arg[1] \in revoked
            /\ \A c \in {"GetCRL", "export", "import"} : ~Made(trace[p], c)

\* C10 witness: a revoke call failed while further revoke calls were still
\* to be made.
C10_Witness ==
    \E p \in Procs :
        /\ Done(p)
        /\ ret[p].err = "revoke"
        /\ todo[p] # <<>>

\* What a RotateCRL invocation returns to its caller.
RotateResult(p) ==
    IF Failed(trace[p], "rotate") THEN ret[p].err ELSE RotateCRLReturn(ret[p].err)

\* C11: in a RotateCRL invocation the rotate request is the first collaborator
\* call and is made once; if it fails it is the only call and its error is
\* returned; if it succeeds and UpdateCRL returns an error, RotateCRL returns
\* that error.
C11_RotateFirst ==
    \A p \in Procs :
        op[p] = "RotateCRL" =>
            /\ \A i \in 1..Len(trace[p]) : (trace[p][i].call = "rotate") <=> (i = 1)
            /\ Failed(trace[p], "rotate") =>
                   /\ Done(p)
                   /\ Len(trace[p]) = 1
                   /\ RotateResult(p) = "rotate"
            /\ (Done(p) /\ Succeeded(trace[p], "rotate") /\ ret[p].err # "nil") =>
                   /\ RotateResult(p) = ret[p].err
                   /\ RotateResult(p) = trace[p][Len(trace[p])].call

\* C11 witness: the rotate request succeeded, the propagation then failed at
\* the import call, and the invocation has returned.
C11_Witness ==
    \E p \in Procs :
        /\ Done(p)
        /\ op[p] = "RotateCRL"
        /\ Succeeded(trace[p], "rotate")
        /\ Failed(trace[p], "import")

\* C12: when a RotateCRL has rotated the CRL and then failed, the rotation is
\* not undone, and a later UpdateCRL or RotateCRL that returns success (no
\* other party having changed users or certificates meanwhile) leaves the
\* installed CRL equal to the PKI's current CRL and, for every enumerated
\* user, no unrevoked certificate other than the latest (the end state of a
\* run in which nothing failed).  (The code does not satisfy this: see C3, C4.)
C12_RetryReconverges ==
    \A p \in Procs :
        (Done(p) /\ op[p] \in {"UpdateCRL", "RotateCRL"} /\ ret[p].err = "nil"
                 /\ ~mutated[p] /\ prev[p].ahead)
            => /\ serial >= 1
               /\ gateway = AwsString(PkiCRL)
               /\ \A u \in Users :
                      users[p][u] # <<>> =>
                          Elems(users[p][u]) \ revoked \subseteq {Latest(users[p][u])}

\* The phase of the run in slot p, in the terms of the rotation state machine:
\* the enumeration and the revocations make up Converging, the export call,
\* the comparison and the import call make up Diffing; a run that has returned
\* is in NoOpDone, Pushed or Failed until its caller takes the result (Done),
\* after which the slot is Idle again.
Phase(p) ==
    CASE pc[p] = "idle" -> "Idle"
      [] pc[p] = "rotate" -> "Rotating"
      [] pc[p] \in {"list", "revoke"} -> "Converging"
      [] pc[p] = "getcrl" -> "Fetching"
      [] pc[p] \in {"export", "import_update", "import_first"} -> "Diffing"
      [] pc[p] = "done" /\ ret[p].err # "nil" -> "Failed"
      [] pc[p] = "done" /\ ret[p].err = "nil" /\ Made(trace[p], "import") -> "Pushed"
      [] OTHER -> "NoOpDone"

PhaseEdges ==
    {<<"Idle", "Rotating">>, <<"Rotating", "Converging">>,
     <<"Converging", "Fetching">>, <<"Fetching", "Diffing">>,
     <<"Diffing", "NoOpDone">>, <<"Diffing", "Pushed">>,
     <<"NoOpDone", "Idle">>, <<"Pushed", "Idle">>, <<"Failed", "Idle">>}
    \cup {<<ph, "Failed">> : ph \in {"Rotating", "Converging", "Fetching", "Diffing"}}

\* C13: every step of a RotateCRL run stays in its phase or moves along
\* Idle, Rotating, Converging, Fetching, Diffing, then NoOpDone or Pushed, then
\* Done, or to Failed; and a step in which a collaborator call fails moves the
\* run to Failed.  (The code does not satisfy this: a failed CRL fetch moves
\* the run on to Diffing, see C3, C4.)
C13_PhaseOrder ==
    [][\A p \in Procs :
         (op[p] = "RotateCRL" \/ op'[p] = "RotateCRL") =>
             /\ \/ Phase(p)' = Phase(p)
                \/ <<Phase(p), Phase(p)'>> \in PhaseEdges
             /\ (Len(trace'[p]) > Len(trace[p]) /\ ~trace'[p][Len(trace'[p])].ok)
                    => Phase(p)' = "Failed"]_vars

\* C14: a GetCRL that directly follows an UpdateCRL which pushed a CRL to the
\* endpoint and returned success, with no change by any other party since
\* that UpdateCRL started, returns with no error exactly the bytes last pushed
\* (the installed CRL).  (The code does not satisfy this: see C3, C4, C15.)
C14_FetchAfterPush ==
    \A p \in Procs :
        (Done(p) /\ op[p] = "GetCRL" /\ ret[p].err = "nil" /\ ~mutated[p]
                 /\ prev[p].valid /\ prev[p].pushes = 1)
            => /\ gateway.valid
               /\ String(ret[p].data) = gateway.val

\* C15: GetCRL returns either the whole body the PKI served, with no error,
\* or an error and no data; whenever the request or the reading of the body
\* fails it returns an error.
C15_WholeBodyOrError ==
    \A p \in Procs :
        (Done(p) /\ op[p] = "GetCRL") =>
            /\ \/ /\ ret[p].err = "nil"
                  /\ served[p].valid
                  /\ ret[p].data = Bytes(served[p].val)
               \/ /\ ret[p].err # "nil"
                  /\ ret[p].data = NilBytes
            /\ Failed(trace[p], "GetCRL") => ret[p].err # "nil"

C18_OneOutcomeEvent ==
    \A p \in Procs :
        (Done(p) /\ Propagates(p)) =>
            /\ ret[p].err = "nil" => Len(log[p]) = 1
            /\ (\E i \in 1..Len(log[p]) : log[p][i] \in {"updated", "first upload"})
                   => Succeeded(trace[p], "import")

\* Both invocations have returned.
BothReturned == \A p \in Procs : Done(p)
\* Both invocations have returned success.
BothSucceeded == BothReturned /\ \A p \in Procs : ret[p].err = "nil"
\* No collaborator call of either invocation failed.
AllCallsOk == \A p \in Procs : \A i \in 1..Len(trace[p]) : trace[p][i].ok

\* C17 as stated: once two interleaved invocations have both returned success
\* (here even with every one of their collaborator calls successful), the CRL
\* installed on the endpoint is the PKI's current CRL.  (The code does not
\* satisfy this: an invocation that fetched the CRL before the other one's
\* rotation imports it after the other one's import.)
C17_ConcurrentInstalledEqualsPki ==
    (BothSucceeded /\ AllCallsOk) => gateway = AwsString(PkiCRL)

\* What two interleaved invocations that both returned success do leave: the
\* CRL installed on the endpoint is, as a string, the CRL that one of the two
\* fetched (which may no longer be the PKI's current one).
InstalledIsOneFetched ==
    BothSucceeded =>
        /\ gateway.valid
        /\ \E p \in Procs : gateway.val = String(crl[p])

====
